---- MODULE Spec2Model ----
(***************************************************************************)
(* Model of the deep reinforced landing node (drl_services_real_uav.cpp):  *)
(* the 30 Hz main loop (reward evaluation, reset handling, command         *)
(* dispatch, spinOnce) and the service handlers served by spinOnce.        *)
(*                                                                         *)
(* Units.  Lengths are integers counting quarters of a metre (1.5 m = 6,   *)
(* 0.75 m = 3, 20 m = 80); velocities are integers counting tenths         *)
(* (0.5 = 5, 0.2 = 2).  Every length and velocity of the program that the  *)
(* model uses is a multiple of its unit.                                   *)
(***************************************************************************)
EXTENDS Integers, Sequences, FiniteSets, TLC

VARIABLES
  pc,                        \* position of main()'s loop body
  handled,                   \* callbacks served by the current spinOnce
  done_, reward_, wrong_altitude_, reset_, action_,
  can_takeoff_, can_land_, can_move_, velocity_cmd_,
  quadrotorPose_, markerPose_, quadrotor_to_marker_pose_,
  bb_landing_, bb_flight_,
  published,                 \* actuation messages the dispatch just published
  set_pose_calls,            \* set_state_client_.call()s issued in this tick
  pushed_pose,               \* the pose the reset step just pushed
  steps,                     \* the steps of this tick, in execution order
  last_reset_req,            \* last req.reset received since the reset step
  moves_in_spin,             \* move tokens received by the last spinOnce
  response,                  \* the last service response of this spinOnce
  query_ok,                  \* which calls of the last pose query succeeded
  requested,                 \* classes requested and not published since
  last_token,                \* the command of the last sendCommand request
  waited,                    \* dispatches a pending land or move has waited
  sim_pose,                  \* the vehicle pose the simulator holds
  reset_from,                \* the simulator's pose before the last reset
  pushed_orientation         \* the orientation the reset step just pushed

vars == <<pc, handled, done_, reward_, wrong_altitude_, reset_, action_,
          can_takeoff_, can_land_, can_move_, velocity_cmd_,
          quadrotorPose_, markerPose_, quadrotor_to_marker_pose_,
          bb_landing_, bb_flight_, published, set_pose_calls, pushed_pose,
          steps, last_reset_req, moves_in_spin, response,
          query_ok, requested, last_token, waited, sim_pose, reset_from, pushed_orientation>>

---------------------------------------------------------------------------
(* Bounds of the model *)

\* callbacks one spinOnce serves at most
MaxReqPerSpin == 2

---------------------------------------------------------------------------
(* Constants of the constructor and of sendCommand *)

bb_flight_half_size_ == 6
bb_flight_height_ == 80
bb_landing_half_size_ == 3
bb_landing_height_ == 6
velocity == 5

ZeroPose == [x |-> 0, y |-> 0, z |-> 0]
\* no orientation pushed
NoOrientation == [x |-> 0, y |-> 0, z |-> 0, w |-> 0]

ZeroTwist == [lx |-> 0, ly |-> 0, lz |-> 0, ax |-> 0, ay |-> 0, az |-> 0]

---------------------------------------------------------------------------
(* Inputs the environment supplies *)

\* action tokens sendCommand tests for, in the order of its if-chain
MoveTokens == {"left", "left_forward", "right", "right_forward", "forward",
               "backward", "left_backward", "right_backward", "ascend",
               "descend", "rotate_left", "rotate_right"}
Recognised == MoveTokens \cup {"takeoff", "land"}
\* tokens sendCommand does not test for ("" is also action_'s initial value)
Unknown == {"stop", ""}
Tokens == Recognised \cup Unknown

\* positions the simulator reports for the vehicle and for the marker
VehiclePoses == {[x |-> 2, y |-> 0, z |-> 8]}
MarkerPoses == {ZeroPose}
\* the richer inputs of the geometric specification
GeoTokens == {"land", "stop"}
\* one token of each class, for the liveness specification
LiveTokens == {"takeoff", "land", "left"}
GeoVehiclePoses == [x : {0, 7}, y : {0}, z : {-1, 2, 81}]
                     \cup {[x |-> 0, y |-> -7, z |-> 2]}
GeoMarkerPoses == {ZeroPose, [x |-> 1, y |-> 0, z |-> 2],
                   [x |-> 0, y |-> 0, z |-> -12]}

---------------------------------------------------------------------------
(* BoundingBox (include/boundingBox.h is not part of the sources) *)

\* a default-constructed box: no extent, at the origin
DefaultBox == [cx |-> 0, cy |-> 0, cz |-> 0, half |-> 0, height |-> 0]

setDimension(pose, half_size, height) ==
  [cx |-> pose.x, cy |-> pose.y, cz |-> pose.z,
   half |-> half_size, height |-> height]

contains(bb, p) ==
  /\ bb.cx - bb.half <= p.x /\ p.x <= bb.cx + bb.half
  /\ bb.cy - bb.half <= p.y /\ p.y <= bb.cy + bb.half
  /\ bb.cz <= p.z /\ p.z <= bb.cz + bb.height

---------------------------------------------------------------------------
(* Utilities::assignRewardWithoutFlightBB (include/utilities.h is not part *)
(* of the sources): the reward policy of the specification.                *)

assignRewardWithoutFlightBB(pose, bb_land, bb_fl, action) ==
  IF ~contains(bb_fl, pose)
    THEN [reward |-> -100, done |-> TRUE, wrong_altitude |-> FALSE]
  ELSE IF contains(bb_land, pose) /\ action = "land"
    THEN [reward |-> 100, done |-> TRUE, wrong_altitude |-> FALSE]
  ELSE IF contains(bb_land, pose)
    THEN [reward |-> -10, done |-> FALSE, wrong_altitude |-> TRUE]
  ELSE [reward |-> 0, done |-> FALSE, wrong_altitude |-> FALSE]

---------------------------------------------------------------------------
(* The state after the constructor *)

Init ==
  /\ pc = "query"
  /\ handled = 0
  /\ done_ = FALSE
  /\ reward_ = 0
  /\ wrong_altitude_ = FALSE
  /\ reset_ = FALSE
  /\ action_ = ""
  /\ can_takeoff_ = FALSE
  /\ can_land_ = FALSE
  /\ can_move_ = FALSE
  /\ velocity_cmd_ = ZeroTwist
  /\ quadrotorPose_ = ZeroPose
  /\ markerPose_ = ZeroPose
  /\ quadrotor_to_marker_pose_ = ZeroPose
  /\ bb_landing_ = DefaultBox
  /\ bb_flight_ = DefaultBox
  /\ published = <<>>
  /\ set_pose_calls = 0
  /\ pushed_pose = ZeroPose
  /\ steps = <<>>
  /\ last_reset_req = "none"
  /\ moves_in_spin = 0
  /\ response = [op |-> "none"]
  /\ query_ok = [vehicle |-> FALSE, marker |-> FALSE]
  /\ requested = {}
  /\ last_token = ""
  /\ waited = [land |-> 0, move |-> 0]
  /\ sim_pose = [x |-> 2, y |-> 0, z |-> 8]
  /\ reset_from = ZeroPose
  /\ pushed_orientation = NoOrientation

---------------------------------------------------------------------------
(* main(): the loop body, one step after the other *)

\* the dispatch placed before the reset handling, as a mutation of the loop
NextStep_DispatchBeforeReset(p) ==
  CASE p = "query" -> "evaluate"
    [] p = "evaluate" -> "dispatch"
    [] p = "dispatch" -> "reset"
    [] p = "reset" -> "spin"
    [] p = "spin" -> "query"

\* the reset handling placed before the pose queries, as a mutation of the
\* loop
NextStep_ResetBeforeQuery(p) ==
  CASE p = "query" -> "evaluate"
    [] p = "evaluate" -> "dispatch"
    [] p = "dispatch" -> "spin"
    [] p = "spin" -> "reset"
    [] p = "reset" -> "query"

\* spinOnce placed between the pose queries and the evaluation, as a
\* mutation of the loop
NextStep_SpinBeforeEvaluate(p) ==
  CASE p = "query" -> "spin"
    [] p = "spin" -> "evaluate"
    [] p = "evaluate" -> "reset"
    [] p = "reset" -> "dispatch"
    [] p = "dispatch" -> "query"

\* the step main()'s loop body runs after step p; "spin" is ros::spinOnce()
NextStep(p) ==
  CASE p = "query" -> "evaluate"
    [] p = "evaluate" -> "reset"
    [] p = "reset" -> "dispatch"
    [] p = "dispatch" -> "spin"
    [] p = "spin" -> "query"

\* the reward of the evaluation not stored, as a mutation of the setter
setRewardValue_Stale(reward) == reward_

\* setReward(double reward)
setRewardValue(reward) == reward

\* the landing box left where it was, as a mutation of the rebuild
RebuildLandingBox_Kept(marker) == bb_landing_

\* the boxes setReward() builds around the marker it has just read
RebuildLandingBox(marker) ==
  setDimension(marker, bb_landing_half_size_, bb_landing_height_)

\* the height passed as half size too, as a mutation of the flight box
RebuildFlightBox_WrongArgs(marker) ==
  setDimension(marker, bb_flight_height_, bb_flight_height_)

RebuildFlightBox(marker) ==
  setDimension(marker, bb_flight_half_size_, bb_flight_height_)

\* get_state_client_.call(srv_): it succeeds with a pose of the simulator,
\* or it fails
GetModelStateCall(poses) ==
  {[ok |-> TRUE, pose |-> p] : p \in poses}
    \cup {[ok |-> FALSE, pose |-> ZeroPose]}

\* the response copied whatever the call returned, as a mutation
CachedAfterCall_NoCheck(old, call) == call.pose

\* the cached position after a call: the response when the call succeeded,
\* else the position cached before
CachedAfterCall(old, call) == IF call.ok THEN call.pose ELSE old

\* setReward(), first part: both get_state_client_ calls, q for the vehicle
\* and m for the marker, each of which may fail, and the boxes rebuilt
\* around the marker when its call succeeds.  A tick starts here.
setRewardQuery(q, m) ==
  /\ pc = "query"
  /\ quadrotorPose_' = CachedAfterCall(quadrotorPose_, q)
  /\ markerPose_' = CachedAfterCall(markerPose_, m)
  /\ bb_landing_' =
       IF m.ok THEN RebuildLandingBox(markerPose_') ELSE bb_landing_
  /\ bb_flight_' =
       IF m.ok THEN RebuildFlightBox(markerPose_') ELSE bb_flight_
  /\ pc' = NextStep(pc)
  /\ steps' = <<"query">>
  /\ set_pose_calls' = 0
  /\ UNCHANGED <<handled, done_, reward_, wrong_altitude_, reset_, action_,
                 can_takeoff_, can_land_, can_move_, velocity_cmd_,
                 quadrotor_to_marker_pose_, published, pushed_pose,
                 last_reset_req, moves_in_spin, response>>

\* setReward(), second part: the relative pose and the reward evaluation
setRewardEvaluate ==
  /\ pc = "evaluate"
  /\ quadrotor_to_marker_pose_' =
       [x |-> quadrotorPose_.x - markerPose_.x,
        y |-> quadrotorPose_.y - markerPose_.y,
        z |-> quadrotorPose_.z - markerPose_.z]
  /\ LET r == assignRewardWithoutFlightBB(quadrotorPose_, bb_landing_,
                                          bb_flight_, action_)
     IN /\ done_' = r.done
        /\ wrong_altitude_' = r.wrong_altitude
        /\ reward_' = setRewardValue(r.reward)
  /\ pc' = NextStep(pc)
  /\ steps' = Append(steps, "evaluate")
  /\ UNCHANGED <<handled, reset_, action_, can_takeoff_, can_land_, can_move_,
                 velocity_cmd_, quadrotorPose_, markerPose_, bb_landing_,
                 bb_flight_, published, set_pose_calls, pushed_pose,
                 last_reset_req, moves_in_spin, response>>

\* double -> int conversion of a length, in whole metres (towards zero)
TruncMetres(q) == IF q >= 0 THEN q \div 4 ELSE -((-q) \div 4)

\* getReset()
getReset == reset_

\* a setter that assigns the wrong way round, as a mutation of setReset
setReset_Swapped(reset) == reset_

\* setReset(bool reset)
setReset(reset) == reset

\* x and y drawn from marker to marker + 2*half, the "- half" forgotten,
\* as a mutation of the spawner
getModelState_NoCentre(marker) ==
  LET a == TruncMetres(marker.z + bb_landing_height_ + 4)
      b == TruncMetres(marker.z + 60 - bb_landing_height_)
      offs == {0, 2 * bb_flight_half_size_ - 1}
  IN [x : {marker.x + o : o \in offs},
      y : {marker.y + o : o \in offs},
      z : {4 * k : k \in {a, a + 1, b}}]

\* getModelState(): the poses the spawner can return around a marker.
\* x and y: marker - half + 2*half*rand()/(RAND_MAX+1.0), of which the model
\* draws the two ends; z: a whole number of metres drawn from
\* uniform_int_distribution<int>(marker.z + landing_height + 1,
\*                               marker.z + 15.0 - landing_height),
\* whose bounds are converted to int, of which the model draws both ends and
\* the second value.
getModelState(marker) ==
  LET a == TruncMetres(marker.z + bb_landing_height_ + 4)
      b == TruncMetres(marker.z + 60 - bb_landing_height_)
      offs == {0, 2 * bb_flight_half_size_ - 1}
  IN [x : {marker.x - bb_flight_half_size_ + o : o \in offs},
      y : {marker.y - bb_flight_half_size_ + o : o \in offs},
      z : {4 * k : k \in {a, a + 1, b}}]

\* the reset handling clearing done_ as well, as a mutation of the loop
ResetStep_ClearsDone ==
  /\ pc = "reset"
  /\ IF reset_
       THEN /\ \E p \in getModelState(markerPose_) : pushed_pose' = p
            /\ set_pose_calls' = set_pose_calls + 1
       ELSE UNCHANGED <<pushed_pose, set_pose_calls>>
  /\ reset_' = FALSE
  /\ done_' = FALSE
  /\ last_reset_req' = "none"
  /\ pc' = "dispatch"
  /\ steps' = Append(steps, "reset")
  /\ UNCHANGED <<handled, reward_, wrong_altitude_, action_,
                 can_takeoff_, can_land_, can_move_, velocity_cmd_,
                 quadrotorPose_, markerPose_, quadrotor_to_marker_pose_,
                 bb_landing_, bb_flight_, published, moves_in_spin, response>>

\* the reset handling of the loop body: when the reset service was called,
\* one random pose is pushed to the simulator; then reset_ is cleared
ResetStep ==
  /\ pc = "reset"
  /\ IF getReset = TRUE
       THEN /\ \E p \in getModelState(markerPose_) : pushed_pose' = p
            /\ set_pose_calls' = set_pose_calls + 1
       ELSE UNCHANGED <<pushed_pose, set_pose_calls>>
  /\ reset_' = setReset(FALSE)
  /\ last_reset_req' = "none"
  /\ pc' = NextStep(pc)
  /\ steps' = Append(steps, "reset")
  /\ UNCHANGED <<handled, done_, reward_, wrong_altitude_, action_,
                 can_takeoff_, can_land_, can_move_, velocity_cmd_,
                 quadrotorPose_, markerPose_, quadrotor_to_marker_pose_,
                 bb_landing_, bb_flight_, published, moves_in_spin, response>>

\* a chain of three independent ifs, as a mutation of the else-if chain
DispatchPlan_NoElse(t, l, m) ==
  (IF t THEN <<"takeoff">> ELSE <<>>)
    \o (IF l THEN <<"land">> ELSE <<>>)
    \o (IF m THEN <<"move">> ELSE <<>>)

\* the land branch tested first, as a mutation of the else-if chain
DispatchPlan_LandFirst(t, l, m) ==
  IF l THEN <<"land">>
  ELSE IF t THEN <<"takeoff">>
  ELSE IF m THEN <<"move">>
  ELSE <<>>

\* the chain without its last branch, as a mutation
DispatchPlan_NoMove(t, l, m) ==
  IF t THEN <<"takeoff">>
  ELSE IF l THEN <<"land">>
  ELSE <<>>

\* the last branch taken without its test, as a mutation of the chain
DispatchPlan_AlwaysMove(t, l, m) ==
  IF t THEN <<"takeoff">>
  ELSE IF l THEN <<"land">>
  ELSE <<"move">>

\* the classes the if / else-if chain of the loop body publishes, in order
DispatchPlan(t, l, m) ==
  IF t THEN <<"takeoff">>
  ELSE IF l THEN <<"land">>
  ELSE IF m THEN <<"move">>
  ELSE <<>>

\* every flag cleared by every branch, as a mutation of the chain
ClearedBy_All(class) == {"takeoff", "land", "move"}

\* the pending flags a branch of the chain clears after publishing
ClearedBy(class) == {class}

\* the message a branch publishes: an Empty, or getVelocityCmd()
Message(class) ==
  IF class = "move" THEN [class |-> "move", twist |-> velocity_cmd_]
  ELSE [class |-> class]

\* the command dispatch of the loop body
Dispatch ==
  /\ pc = "dispatch"
  /\ LET plan == DispatchPlan(can_takeoff_, can_land_, can_move_)
         cleared == UNION {ClearedBy(plan[i]) : i \in 1..Len(plan)}
     IN /\ published' = published \o [i \in 1..Len(plan) |-> Message(plan[i])]
        /\ can_takeoff_' = (can_takeoff_ /\ "takeoff" \notin cleared)
        /\ can_land_' = (can_land_ /\ "land" \notin cleared)
        /\ can_move_' = (can_move_ /\ "move" \notin cleared)
  /\ moves_in_spin' = 0
  /\ pushed_pose' = ZeroPose
  /\ pc' = NextStep(pc)
  /\ steps' = Append(steps, "dispatch")
  /\ UNCHANGED <<handled, done_, reward_, wrong_altitude_, reset_, action_,
                 velocity_cmd_, quadrotorPose_, markerPose_,
                 quadrotor_to_marker_pose_, bb_landing_, bb_flight_,
                 set_pose_calls, last_reset_req, response>>

\* rate.sleep() after spinOnce has served its callbacks: the next tick
Sleep ==
  /\ pc = "spin"
  /\ pc' = NextStep(pc)
  /\ handled' = 0
  /\ published' = <<>>
  /\ response' = [op |-> "none"]
  /\ UNCHANGED <<done_, reward_, wrong_altitude_, reset_, action_,
                 can_takeoff_, can_land_, can_move_, velocity_cmd_,
                 quadrotorPose_, markerPose_, quadrotor_to_marker_pose_,
                 bb_landing_, bb_flight_, set_pose_calls, pushed_pose, steps,
                 last_reset_req, moves_in_spin>>

---------------------------------------------------------------------------
(* The service handlers, which ros::spinOnce() calls on the main thread.   *)
(* The camera services and the image callback read and write the image     *)
(* fields only, which the model leaves out.                                *)

\* what one spinOnce callback does to the bookkeeping of the loop
Served ==
  /\ pc = "spin"
  /\ handled < MaxReqPerSpin
  /\ handled' = handled + 1
  /\ steps' = Append(steps, "handler")
  /\ published' = <<>>
  /\ pc' = pc

\* getStatus()
getStatus ==
  /\ Served
  /\ response' = [op |-> "getStatus", ok |-> TRUE, done |-> done_,
                  reward |-> reward_, wrong_altitude |-> wrong_altitude_,
                  x |-> quadrotorPose_.x, y |-> quadrotorPose_.y,
                  z |-> quadrotorPose_.z]
  /\ UNCHANGED <<done_, reward_, wrong_altitude_, reset_, action_,
                 can_takeoff_, can_land_, can_move_, velocity_cmd_,
                 quadrotorPose_, markerPose_, quadrotor_to_marker_pose_,
                 bb_landing_, bb_flight_, set_pose_calls, pushed_pose,
                 last_reset_req, moves_in_spin>>

\* getRelativePose()
getRelativePose ==
  /\ Served
  /\ response' = [op |-> "getRelativePose", ok |-> TRUE,
                  x |-> quadrotor_to_marker_pose_.x,
                  y |-> quadrotor_to_marker_pose_.y,
                  z |-> quadrotor_to_marker_pose_.z]
  /\ UNCHANGED <<done_, reward_, wrong_altitude_, reset_, action_,
                 can_takeoff_, can_land_, can_move_, velocity_cmd_,
                 quadrotorPose_, markerPose_, quadrotor_to_marker_pose_,
                 bb_landing_, bb_flight_, set_pose_calls, pushed_pose,
                 last_reset_req, moves_in_spin>>

\* setModelState(Request, Response), the reset service
setModelState(req_reset) ==
  /\ Served
  /\ reset_' = req_reset
  /\ last_reset_req' = IF req_reset THEN "true" ELSE "false"
  /\ response' = [op |-> "setModelState", ok |-> TRUE]
  /\ UNCHANGED <<done_, reward_, wrong_altitude_, action_,
                 can_takeoff_, can_land_, can_move_, velocity_cmd_,
                 quadrotorPose_, markerPose_, quadrotor_to_marker_pose_,
                 bb_landing_, bb_flight_, set_pose_calls, pushed_pose,
                 moves_in_spin>>

\* the token not stored, as a mutation of the setter
setActionCommand_Ignored(action) == action_

\* setActionCommand(action)
setActionCommand(action) == action

\* only the linear part zeroed, as a mutation of the last branch
StopTwist_LinearOnly(v) == [v EXCEPT !.lx = 0, !.ly = 0, !.lz = 0]

\* the velocity_cmd_ the last branch of sendCommand leaves: all six zeroed
StopTwist(v) == ZeroTwist

\* the velocity_cmd_ sendCommand leaves, given the one it finds
sendCommandVelocity(v, command) ==
  CASE command = "left" -> [v EXCEPT !.ly = velocity]
    [] command = "left_forward" -> [v EXCEPT !.ly = velocity, !.lx = velocity]
    [] command = "right" -> [v EXCEPT !.ly = -velocity]
    [] command = "right_forward" ->
         [v EXCEPT !.ly = -velocity, !.lx = velocity]
    [] command = "forward" -> [v EXCEPT !.lx = velocity]
    [] command = "backward" -> [v EXCEPT !.lx = -velocity]
    [] command = "left_backward" ->
         [v EXCEPT !.ly = velocity, !.lx = -velocity]
    [] command = "right_backward" ->
         [v EXCEPT !.ly = -velocity, !.lx = -velocity]
    [] command = "ascend" -> [v EXCEPT !.lz = velocity]
    [] command = "descend" -> [v EXCEPT !.lz = -2]
    [] command = "rotate_left" -> [v EXCEPT !.az = velocity]
    [] command = "rotate_right" -> [v EXCEPT !.az = -velocity]
    [] command = "takeoff" -> v
    [] command = "land" -> v
    [] OTHER -> StopTwist(v)

\* the pending flag the branch of sendCommand taken for a command sets
sendCommandClass(command) ==
  CASE command = "takeoff" -> "takeoff"
    [] command = "land" -> "land"
    [] OTHER -> "move"

\* sendCommand()
sendCommand(command) ==
  /\ Served
  /\ action_' = setActionCommand(command)
  /\ velocity_cmd_' = sendCommandVelocity(velocity_cmd_, command)
  /\ can_takeoff_' = (can_takeoff_ \/ sendCommandClass(command) = "takeoff")
  /\ can_land_' = (can_land_ \/ sendCommandClass(command) = "land")
  /\ can_move_' = (can_move_ \/ sendCommandClass(command) = "move")
  /\ moves_in_spin' =
       IF sendCommandClass(command) = "move" THEN moves_in_spin + 1
       ELSE moves_in_spin
  /\ response' = [op |-> "sendCommand", ok |-> TRUE]
  /\ UNCHANGED <<done_, reward_, wrong_altitude_, reset_,
                 quadrotorPose_, markerPose_, quadrotor_to_marker_pose_,
                 bb_landing_, bb_flight_, set_pose_calls, pushed_pose,
                 last_reset_req>>

---------------------------------------------------------------------------
(* Observers: variables that record what the program did and sent.  No     *)
(* action of the program reads them; a specification conjoins them to the  *)
(* steps it observes and leaves the others as they are.                    *)

\* which of the two calls of a pose query succeeded
ObserveQuery(q, m) == query_ok' = [vehicle |-> q.ok, marker |-> m.ok]

\* the classes of a sequence of published messages
PublishedClasses(msgs) == {msgs[i].class : i \in 1..Len(msgs)}

\* a request: its class is requested, its command is the last one
ObserveCommand(command) ==
  /\ requested' = requested \cup {sendCommandClass(command)}
  /\ last_token' = command

\* a dispatch: what it published is no longer requested
ObserveDispatch ==
  /\ requested' = requested \ PublishedClasses(published')
  /\ last_token' = last_token

\* a request of a class restarts the wait of the classes it preempts
ObserveWaitCommand(command) ==
  waited' =
    [land |-> IF sendCommandClass(command) = "takeoff" THEN 0
              ELSE waited.land,
     move |-> IF sendCommandClass(command) \in {"takeoff", "land"} THEN 0
              ELSE waited.move]

\* a dispatch: a class still pending after it has waited once more
ObserveWaitDispatch ==
  waited' =
    [land |-> IF ~can_land_' THEN 0
              ELSE IF waited.land < 3 THEN waited.land + 1 ELSE 3,
     move |-> IF ~can_move_' THEN 0
              ELSE IF waited.move < 3 THEN waited.move + 1 ELSE 3]

\* set_state_client_.call(set_model_state): the simulator moves the vehicle
\* to the pushed pose, or the call fails and the vehicle stays; the return
\* value is not looked at
ObserveReset ==
  IF set_pose_calls' > set_pose_calls
    THEN /\ sim_pose' \in {pushed_pose', sim_pose}
         /\ reset_from' = sim_pose
    ELSE UNCHANGED <<sim_pose, reset_from>>

\* cosine and sine of half an angle given in half turns
HalfCos(k) == <<1, 0, -1, 0>>[(k % 4) + 1]

HalfSin(k) == <<0, 1, 0, -1>>[(k % 4) + 1]

\* tf::Matrix3x3::setEulerYPR followed by getRotation: the quaternion of a
\* rotation by roll about x, then pitch about y, then yaw about z
setEulerYPR(yaw, pitch, roll) ==
  LET cy == HalfCos(yaw)   sy == HalfSin(yaw)
      cp == HalfCos(pitch) sp == HalfSin(pitch)
      cr == HalfCos(roll)  sr == HalfSin(roll)
  IN [x |-> sr * cp * cy - cr * sp * sy,
      y |-> cr * sp * cy + sr * cp * sy,
      z |-> cr * cp * sy - sr * sp * cy,
      w |-> cr * cp * cy + sr * sp * sy]

\* the values of yaw that rand() % 360 is drawn from here, in half turns
Yaws == {0, 1}

\* the values a tfScalar that was declared and never assigned can hold
Indeterminate == {0, 1}

\* getModelState(), the orientation: yaw is drawn, roll and pitch are read
\* without ever having been assigned
getModelStateOrientation ==
  {setEulerYPR(yaw, pitch, roll) :
     yaw \in Yaws, pitch \in Indeterminate, roll \in Indeterminate}

\* the orientation of the pose a reset step pushes
ObserveOrientation ==
  IF set_pose_calls' > set_pose_calls
    THEN \E o \in getModelStateOrientation : pushed_orientation' = o
    ELSE UNCHANGED pushed_orientation

\* a dispatch: the pushed pose is no longer looked at
ForgetOrientation == pushed_orientation' = NoOrientation

---------------------------------------------------------------------------
(* Specifications *)

\* the command specification: every action token, one pose of each object
Next ==
  \/ /\ \E q \in GetModelStateCall(VehiclePoses),
           m \in GetModelStateCall(MarkerPoses) : setRewardQuery(q, m)
     /\ UNCHANGED <<query_ok, requested, last_token, waited, sim_pose, reset_from, pushed_orientation>>
  \/ setRewardEvaluate /\ UNCHANGED <<query_ok, requested, last_token, waited, sim_pose, reset_from, pushed_orientation>>
  \/ ResetStep /\ UNCHANGED <<query_ok, requested, last_token, waited, sim_pose, reset_from, pushed_orientation>>
  \/ Dispatch /\ ObserveDispatch /\ UNCHANGED <<query_ok, waited, sim_pose, reset_from, pushed_orientation>>
  \/ Sleep /\ UNCHANGED <<query_ok, requested, last_token, waited, sim_pose, reset_from, pushed_orientation>>
  \/ getStatus /\ UNCHANGED <<query_ok, requested, last_token, waited, sim_pose, reset_from, pushed_orientation>>
  \/ getRelativePose /\ UNCHANGED <<query_ok, requested, last_token, waited, sim_pose, reset_from, pushed_orientation>>
  \/ /\ \E b \in BOOLEAN : setModelState(b)
     /\ UNCHANGED <<query_ok, requested, last_token, waited, sim_pose, reset_from, pushed_orientation>>
  \/ \E tok \in Tokens :
       sendCommand(tok) /\ ObserveCommand(tok) /\ UNCHANGED <<query_ok, waited, sim_pose, reset_from, pushed_orientation>>

Spec == Init /\ [][Next]_vars

\* the geometric specification: many poses, two action tokens, and the
\* outcome of the pose queries observed
NextGeo ==
  \/ \E q \in GetModelStateCall(GeoVehiclePoses),
        m \in GetModelStateCall(GeoMarkerPoses) :
       /\ setRewardQuery(q, m)
       /\ ObserveQuery(q, m)
       /\ UNCHANGED <<requested, last_token, waited, sim_pose, reset_from, pushed_orientation>>
  \/ setRewardEvaluate /\ UNCHANGED <<query_ok, requested, last_token, waited, sim_pose, reset_from, pushed_orientation>>
  \/ /\ ResetStep
     /\ ObserveOrientation
     /\ UNCHANGED <<query_ok, requested, last_token, waited, sim_pose, reset_from>>
  \/ /\ Dispatch
     /\ ObserveDispatch
     /\ ForgetOrientation
     /\ UNCHANGED <<query_ok, waited, sim_pose, reset_from>>
  \/ Sleep /\ UNCHANGED <<query_ok, requested, last_token, waited, sim_pose, reset_from, pushed_orientation>>
  \/ getStatus /\ UNCHANGED <<query_ok, requested, last_token, waited, sim_pose, reset_from, pushed_orientation>>
  \/ getRelativePose /\ UNCHANGED <<query_ok, requested, last_token, waited, sim_pose, reset_from, pushed_orientation>>
  \/ /\ \E b \in BOOLEAN : setModelState(b)
     /\ UNCHANGED <<query_ok, requested, last_token, waited, sim_pose, reset_from, pushed_orientation>>
  \/ \E tok \in GeoTokens :
       sendCommand(tok) /\ ObserveCommand(tok) /\ UNCHANGED <<query_ok, waited, sim_pose, reset_from, pushed_orientation>>

SpecGeo == Init /\ [][NextGeo]_vars

\* the steps of main()'s loop, with the waits observed
LiveLoop ==
  \/ /\ \E q \in GetModelStateCall(VehiclePoses),
           m \in GetModelStateCall(MarkerPoses) : setRewardQuery(q, m)
     /\ UNCHANGED <<query_ok, requested, last_token, waited, sim_pose, reset_from, pushed_orientation>>
  \/ setRewardEvaluate /\ UNCHANGED <<query_ok, requested, last_token, waited, sim_pose, reset_from, pushed_orientation>>
  \/ ResetStep /\ UNCHANGED <<query_ok, requested, last_token, waited, sim_pose, reset_from, pushed_orientation>>
  \/ Dispatch /\ ObserveDispatch /\ ObserveWaitDispatch /\ UNCHANGED <<query_ok, sim_pose, reset_from, pushed_orientation>>
  \/ Sleep /\ UNCHANGED <<query_ok, requested, last_token, waited, sim_pose, reset_from, pushed_orientation>>

\* the handlers spinOnce serves, with the waits observed
LiveHandlers ==
  \/ getStatus /\ UNCHANGED <<query_ok, requested, last_token, waited, sim_pose, reset_from, pushed_orientation>>
  \/ getRelativePose /\ UNCHANGED <<query_ok, requested, last_token, waited, sim_pose, reset_from, pushed_orientation>>
  \/ /\ \E b \in BOOLEAN : setModelState(b)
     /\ UNCHANGED <<query_ok, requested, last_token, waited, sim_pose, reset_from, pushed_orientation>>
  \/ \E tok \in LiveTokens :
       /\ sendCommand(tok)
       /\ ObserveCommand(tok)
       /\ ObserveWaitCommand(tok)
       /\ UNCHANGED <<query_ok, sim_pose, reset_from, pushed_orientation>>

\* the liveness specification: one token of each class, and a loop that
\* keeps running (while ros::ok() the loop body is executed again and again,
\* and spinOnce returns once it has served the queued callbacks)
NextLive == LiveLoop \/ LiveHandlers

SpecLive == Init /\ [][NextLive]_vars /\ WF_vars(LiveLoop)

\* the token of the reset specification
ResetTokens == {"land"}

\* the reset specification: a simulator that holds the vehicle where the
\* last set_model_state call put it, so that a pose query returns the
\* respawned pose once the reset has been pushed
NextReset ==
  \/ \E q \in GetModelStateCall({sim_pose}),
        m \in GetModelStateCall(MarkerPoses) :
       /\ setRewardQuery(q, m)
       /\ ObserveQuery(q, m)
       /\ UNCHANGED <<requested, last_token, waited, sim_pose, reset_from, pushed_orientation>>
  \/ setRewardEvaluate /\ UNCHANGED <<query_ok, requested, last_token, waited, sim_pose, reset_from, pushed_orientation>>
  \/ ResetStep /\ ObserveReset /\ UNCHANGED <<query_ok, requested, last_token, waited, pushed_orientation>>
  \/ Dispatch /\ ObserveDispatch /\ UNCHANGED <<query_ok, waited, sim_pose, reset_from, pushed_orientation>>
  \/ Sleep /\ UNCHANGED <<query_ok, requested, last_token, waited, sim_pose, reset_from, pushed_orientation>>
  \/ getStatus /\ UNCHANGED <<query_ok, requested, last_token, waited, sim_pose, reset_from, pushed_orientation>>
  \/ getRelativePose /\ UNCHANGED <<query_ok, requested, last_token, waited, sim_pose, reset_from, pushed_orientation>>
  \/ /\ \E b \in BOOLEAN : setModelState(b)
     /\ UNCHANGED <<query_ok, requested, last_token, waited, sim_pose, reset_from, pushed_orientation>>
  \/ \E tok \in ResetTokens :
       sendCommand(tok) /\ ObserveCommand(tok) /\ UNCHANGED <<query_ok, waited, sim_pose, reset_from, pushed_orientation>>

SpecReset == Init /\ [][NextReset]_vars

---------------------------------------------------------------------------
(* Command arbitration *)

\* C1: a tick publishes at most one actuation message (take-off, land or
\* velocity), whatever is pending and however many send_command requests
\* arrived since the previous tick.
C1_AtMostOneActuation == Len(published) <= 1

\* a dispatch has published take-off while land and move were pending too
C1_Witness ==
  /\ pc = "spin"
  /\ Len(published) = 1
  /\ published[1].class = "takeoff"
  /\ can_land_
  /\ can_move_

\* C2: the dispatch publishes take-off when take-off is pending, land when
\* land is pending and take-off is not, and a velocity only when neither is
\* pending; what is published depends on the pending flags at the dispatch
\* alone, not on the order of the requests.
C2_FixedPriority ==
  [][pc = "dispatch" =>
       /\ can_takeoff_ =>
            Len(published') = 1 /\ published'[1].class = "takeoff"
       /\ (~can_takeoff_ /\ can_land_) =>
            Len(published') = 1 /\ published'[1].class = "land"
       /\ (~can_takeoff_ /\ ~can_land_ /\ can_move_) =>
            Len(published') = 1 /\ published'[1].class = "move"
       /\ \A i \in 1..Len(published') :
            published'[i].class = "move" => ~can_takeoff_ /\ ~can_land_]_vars

\* land has been published although the last request received was a move
C2_Witness ==
  /\ pc = "spin"
  /\ Len(published) = 1
  /\ published[1].class = "land"
  /\ action_ \in MoveTokens

---------------------------------------------------------------------------
(* Reset handling *)

\* C4: in each tick the simulator set_pose call is issued exactly once if
\* the last request_reset value received since the previous reset step is
\* true and not at all otherwise, and reset_requested is false right after
\* the reset step of every tick.
C4_ResetConsumption ==
  [][/\ pc = "reset" =>
          /\ set_pose_calls = 0
          /\ set_pose_calls' = (IF last_reset_req = "true" THEN 1 ELSE 0)
          /\ reset_' = FALSE
     /\ pc \notin {"reset", "query"} => set_pose_calls' = set_pose_calls]_vars

\* a requested reset has just been honoured and consumed
C4_Witness ==
  /\ pc = "dispatch"
  /\ set_pose_calls = 1
  /\ ~reset_

---------------------------------------------------------------------------
(* Move commands *)

\* the velocity a token produces on its own, from a zero velocity
TokenVelocity(tok) == sendCommandVelocity(ZeroTwist, tok)

\* C5: when the last request received is send_command("left"), the next
\* dispatch of a move publishes linear y = +0.5 and zero on the other five
\* components, whatever was requested and dispatched before.
C5_LeftRoundTrip ==
  (Len(published) = 1 /\ published[1].class = "move" /\ action_ = "left")
    => published[1].twist = [ZeroTwist EXCEPT !.ly = velocity]

\* C6: when several move tokens were received between two consecutive
\* ticks, the velocity the next move dispatch publishes is the velocity the
\* last of them alone produces.
C6_LastMoveTokenWins ==
  [][(/\ pc = "dispatch"
      /\ moves_in_spin >= 2
      /\ sendCommandClass(action_) = "move"
      /\ published' # <<>>
      /\ published'[1].class = "move")
       => published'[1].twist = TokenVelocity(action_)]_vars

\* C7: for a token that is none of the recognised names, send_command
\* acknowledges with success, zeroes all six components of the stored
\* velocity and marks a move pending, and the loop goes on; a move
\* dispatched while that token is the last one received is all zero.
C7_UnknownTokenFailSoft ==
  [][/\ (/\ handled' = handled + 1
         /\ response'.op = "sendCommand"
         /\ action_' \notin Recognised)
          => /\ response'.ok
             /\ velocity_cmd_' = ZeroTwist
             /\ can_move_'
             /\ pc' = "spin"
     /\ (/\ pc = "dispatch"
         /\ action_ \notin Recognised
         /\ published' # <<>>
         /\ published'[1].class = "move")
          => published'[1].twist = ZeroTwist]_vars

\* the move an unknown token left pending has been dispatched
C7_Witness ==
  /\ Len(published) = 1
  /\ published[1].class = "move"
  /\ action_ = "stop"
  /\ published[1].twist = ZeroTwist

---------------------------------------------------------------------------
(* The order of the steps of a tick *)

\* C8: in every tick the pose queries with the rebuild of the boxes come
\* first, then the reward evaluation, then the reset handling, then the
\* dispatch; the request handlers run only after the dispatch of a tick and
\* before the pose queries of the next.
C8_StepOrder ==
  \A i \in 1..Len(steps) :
    steps[i] = IF i <= 4
                 THEN <<"query", "evaluate", "reset", "dispatch">>[i]
                 ELSE "handler"

\* a whole tick followed by two handlers, the last one getStatus
C8_Witness ==
  /\ Len(steps) = 6
  /\ steps[5] = "handler"
  /\ response.op = "getStatus"

---------------------------------------------------------------------------
(* Reward evaluation and respawn *)

\* the flight box centred on the cached marker pose
FlightBoxOnMarker ==
  setDimension(markerPose_, bb_flight_half_size_, bb_flight_height_)

C10_RespawnAltitude ==
  (pc = "dispatch" /\ set_pose_calls = 1)
    => /\ markerPose_.z + bb_landing_height_ + 4 < pushed_pose.z
       /\ pushed_pose.z < markerPose_.z + bb_flight_height_ - bb_landing_height_

---------------------------------------------------------------------------
(* Failed pose queries *)

\* C12: when the pose query of the vehicle (of the marker) fails in a tick,
\* the cached pose of that object (and, for the marker, both boxes) keeps
\* its value, and the tick goes on to the reward evaluation, the reset
\* handling and the dispatch, and then to the request handlers.
C12_FailedQueryRecovered ==
  [][/\ pc = "query"
        => /\ ~query_ok'.vehicle => quadrotorPose_' = quadrotorPose_
           /\ ~query_ok'.marker
                => /\ markerPose_' = markerPose_
                   /\ bb_landing_' = bb_landing_
                   /\ bb_flight_' = bb_flight_
           /\ pc' = "evaluate"
     /\ (pc # "spin" /\ ~(query_ok'.vehicle /\ query_ok'.marker))
        => /\ pc' = NextStep(pc)
           /\ pc' = "spin"
                => steps' = <<"query", "evaluate", "reset", "dispatch">>
    ]_vars

\* a tick completed although both of its queries failed, with the poses and
\* boxes of an earlier tick still cached
C12_Witness ==
  /\ pc = "spin"
  /\ ~query_ok.vehicle
  /\ ~query_ok.marker
  /\ quadrotorPose_ # ZeroPose
  /\ markerPose_ # ZeroPose
  /\ bb_flight_ = FlightBoxOnMarker
  /\ Len(steps) = 4

---------------------------------------------------------------------------
(* What the read handlers return *)

\* C13: every answer of get_relative_pose is given after the reward
\* evaluation of the running tick, and carries the relative pose that
\* evaluation computed from the cached poses.
C13_RelativePoseAfterEvaluation ==
  response.op = "getRelativePose"
    => /\ Len(steps) >= 2
       /\ steps[2] = "evaluate"
       /\ response.x = quadrotorPose_.x - markerPose_.x
       /\ response.y = quadrotorPose_.y - markerPose_.y
       /\ response.z = quadrotorPose_.z - markerPose_.z

\* get_relative_pose answered by the first callback of a spinOnce, with a
\* vehicle beside and above the marker
C13_Witness ==
  /\ response.op = "getRelativePose"
  /\ Len(steps) = 5
  /\ response.x > 0
  /\ response.z > 0

\* C14: whenever the pose returned by get_episode_status, or the value
\* returned by get_relative_pose, was not refreshed by a successful pose
\* query in the running tick, the response carries a degraded indication
\* that a fresh reading does not carry.
C14_StaleLabelled ==
  /\ (response.op = "getStatus" /\ ~query_ok.vehicle)
       => "degraded" \in DOMAIN response
  /\ (response.op = "getRelativePose"
        /\ ~(query_ok.vehicle /\ query_ok.marker))
       => "degraded" \in DOMAIN response

\* what the evaluation yields for the cached pose and boxes under action a
Evaluated(a) ==
  assignRewardWithoutFlightBB(quadrotorPose_, bb_landing_, bb_flight_, a)

\* C15: the done, reward, wrong_altitude and vehicle pose one
\* get_episode_status call returns are those of one tick: the handler runs
\* after the whole tick, the pose is the one the tick's query step left in
\* the cache, and the three reward fields are what the tick's evaluation
\* computed from that pose (under the action of the status call itself when
\* no command has arrived since the evaluation).
C15_ConsistentSnapshot ==
  response.op = "getStatus"
    => /\ pc = "spin"
       /\ Len(steps) >= 5
       /\ \A i \in 1..4 :
            steps[i] = <<"query", "evaluate", "reset", "dispatch">>[i]
       /\ response.x = quadrotorPose_.x
       /\ response.y = quadrotorPose_.y
       /\ response.z = quadrotorPose_.z
       /\ \E a \in IF handled = 1 THEN {action_} ELSE Tokens \cup {""} :
            /\ response.done = Evaluated(a).done
            /\ response.reward = Evaluated(a).reward
            /\ response.wrong_altitude = Evaluated(a).wrong_altitude

\* get_episode_status answered with the terminal result of a tick whose
\* vehicle query succeeded outside a flight box placed off the origin
C15_Witness ==
  /\ response.op = "getStatus"
  /\ query_ok.vehicle
  /\ markerPose_ # ZeroPose
  /\ response.done
  /\ response.reward = -100
  /\ response.z = 81

---------------------------------------------------------------------------
(* The two boxes *)

\* the corners of the landing box and the points one step outside them
LandingBoxProbes ==
  [x : {bb_landing_.cx + d : d \in {-4, -3, 0, 3, 4}},
   y : {bb_landing_.cy + d : d \in {-4, -3, 0, 3, 4}},
   z : {bb_landing_.cz + d : d \in {-1, 0, 6, 7}}]

\* C16: once a marker query has succeeded, the landing box and the flight
\* box are both centred on the cached marker pose, with half sizes
\* 0.75 < 1.5 and heights 1.5 < 20, and every point the landing box
\* contains the flight box contains too.
C16_BoxNesting ==
  (bb_landing_ # DefaultBox \/ bb_flight_ # DefaultBox)
    => /\ bb_landing_ = setDimension(markerPose_, 3, 6)
       /\ bb_flight_ = setDimension(markerPose_, 6, 80)
       /\ bb_landing_.half < bb_flight_.half
       /\ bb_landing_.height < bb_flight_.height
       /\ \A p \in LandingBoxProbes :
            contains(bb_landing_, p) => contains(bb_flight_, p)

\* the boxes moved from one marker pose to another by a later tick
C16_Witness ==
  /\ pc = "spin"
  /\ query_ok.marker
  /\ markerPose_.z = -12
  /\ quadrotor_to_marker_pose_.z = 14
  /\ bb_landing_.cz = -12
  /\ bb_flight_.cz = -12

---------------------------------------------------------------------------
(* Who writes what *)

\* C17: done, reward, wrong_altitude and the cached vehicle and marker
\* poses change only while setReward() runs (its pose queries and its
\* evaluation); the reset handling, the dispatch and every request handler
\* leave them as they are, so after the evaluation of a tick done is the
\* outcome of that evaluation.
C17_SingleWriter ==
  [][/\ pc \notin {"query", "evaluate"}
        => UNCHANGED <<done_, reward_, wrong_altitude_, quadrotorPose_,
                       markerPose_>>
     /\ pc \notin {"query", "evaluate"}
        => \E a \in Tokens \cup {""} : done_' = Evaluated(a).done
    ]_vars

\* a landing rewarded by the evaluation, still reported after the reset
\* handling has pushed a pose, the dispatch has run and two handlers have
\* been served
C17_Witness ==
  /\ pc = "spin"
  /\ handled = 2
  /\ set_pose_calls = 1
  /\ done_
  /\ reward_ = 100

---------------------------------------------------------------------------
(* Pending commands *)

\* no command class is pending
NothingPending == ~can_takeoff_ /\ ~can_land_ /\ ~can_move_

\* a send_command request is served
CommandServed == handled' = handled + 1 /\ response'.op = "sendCommand"

\* C18: a pending flag goes back to false only in a dispatch that publishes
\* its class; a pending class is published by the third dispatch after the
\* last request of a class of higher priority at the latest; a pending
\* take-off is always published; and when requests stop, all three flags
\* are eventually false for good.
C18_EventuallyPublished ==
  /\ [][/\ (can_takeoff_ /\ ~can_takeoff_')
             => pc = "dispatch" /\ "takeoff" \in PublishedClasses(published')
        /\ (can_land_ /\ ~can_land_')
             => pc = "dispatch" /\ "land" \in PublishedClasses(published')
        /\ (can_move_ /\ ~can_move_')
             => pc = "dispatch" /\ "move" \in PublishedClasses(published')
       ]_vars
  /\ [](waited.land <= 2 /\ waited.move <= 2)
  /\ (can_takeoff_ ~> ~can_takeoff_)
  /\ ([]<><<CommandServed>>_vars \/ <>[]NothingPending)

\* the second dispatch in a row has published the land that waited behind
\* a take-off, and the move that waited behind both is the only class left
C18_Witness ==
  /\ pc = "spin"
  /\ Len(published) = 1
  /\ published[1].class = "land"
  /\ waited.move = 2
  /\ waited.land = 0
  /\ can_move_
  /\ requested = {"move"}

\* C19: a dispatch publishes a message of a class only if a send_command
\* request of that class has been received since that class was last
\* published (or since start-up); the pending flags are exactly the classes
\* so requested, and a dispatch with no flag set publishes nothing.
C19_NoSpuriousActuation ==
  /\ [][pc = "dispatch"
          => /\ PublishedClasses(published') \subseteq requested
             /\ NothingPending => published' = <<>>
       ]_vars
  /\ [](/\ can_takeoff_ = ("takeoff" \in requested)
        /\ can_land_ = ("land" \in requested)
        /\ can_move_ = ("move" \in requested)
        /\ pc # "spin" => published = <<>>)

\* a tick has published the one land requested since the last land went
\* out, on a velocity command that was requested earlier and is still owed
C19_Witness ==
  /\ pc = "spin"
  /\ handled = 0
  /\ Len(published) = 1
  /\ published[1].class = "land"
  /\ requested = {"move"}
  /\ velocity_cmd_.lz = -2
  /\ last_token = "land"

\* C20: action_ is always the token of the most recent send_command
\* (empty before the first); only a served send_command changes it, so the
\* queries, the evaluation, the reset handling, the dispatch and the other
\* handlers leave it unchanged; and the outcome of the evaluation of a tick
\* is the one computed for that token.
C20_LastActionPersists ==
  /\ [](action_ = last_token)
  /\ [][~CommandServed => action_' = action_]_vars
  /\ [](pc \in {"reset", "dispatch"}
          => /\ done_ = Evaluated(last_token).done
             /\ reward_ = Evaluated(last_token).reward
             /\ wrong_altitude_ = Evaluated(last_token).wrong_altitude)

\* a tick evaluated as a landing on a land token whose message went out in
\* an earlier tick
C20_Witness ==
  /\ pc = "reset"
  /\ last_token = "land"
  /\ requested = {}
  /\ ~can_land_
  /\ reward_ = 100
  /\ done_

---------------------------------------------------------------------------
(* Reset latency *)

C22_RespawnLevel ==
  (pc = "dispatch" /\ set_pose_calls = 1)
    => \E yaw \in Yaws : pushed_orientation = setEulerYPR(yaw, 0, 0)

====
